---- MODULE Spec2Model ----
(***************************************************************************)
(* Model of plot_profiles.py: the profile pipeline of the tc_wakes         *)
(* repository.  One run of main() is a straight-line state machine:        *)
(*   argument check -> open dataset -> decode every time entry ->          *)
(*   select the best-sampled slot -> load the profile variables ->         *)
(*   one curve per selected observation -> title -> save pdf -> save png.  *)
(* Every exception of the Python code ends the run in pc = "aborted".      *)
(*                                                                         *)
(* Numbers.  Decimal years are fixed-point integers q in units of          *)
(* 1/FracDen year (2024.5 is 2024*FracDen + FracDen/2); NaN is a separate  *)
(* value with IEEE comparison (NaN != x for every x).  Durations are in    *)
(* units of 1/FracDen day.  Longitudes and latitudes are in thousandths of *)
(* a degree, labels in hundredths.                                         *)
(***************************************************************************)
EXTENDS Integers, Sequences, FiniteSets, TLC

\* ------------------------------------------------------------------ bounds
\* number of observations (first axis of the index arrays)
NObs == 2
\* number of slots (second axis of the index arrays, length of time)
NSlots == 2
\* rows (j) and columns (i) of the geographic grid lon2 / lat2
NRows == 2
NCols == 3
\* resolution of the fixed-point decimal years
FracDen == 4

Obs == 0 .. (NObs - 1)
SlotIdx == 0 .. (NSlots - 1)

\* ------------------------------------------------------------ plain helpers
RECURSIVE SumTo(_, _)
\* f[0] + ... + f[n-1]
SumTo(f, n) == IF n = 0 THEN 0 ELSE f[n - 1] + SumTo(f, n - 1)

\* ------------------------------------------------------------ time decoding
NaN == [nan |-> TRUE, q |-> 0]
Num(q) == [nan |-> FALSE, q |-> q]
NoFill == [has |-> FALSE, nan |-> FALSE, q |-> 0]
FillOf(tv) == [has |-> TRUE, nan |-> tv.nan, q |-> tv.q]

\* int(year_frac): truncation toward zero
IntTrunc(q) == IF q >= 0 THEN q \div FracDen ELSE -((-q) \div FracDen)

IsLeapNoCentury(year) == year % 4 = 0
IsLeap(year) == year % 4 = 0 /\ (year % 100 # 0 \/ year % 400 = 0)

DaysInYear(year) == IF IsLeap(year) THEN 366 ELSE 365

MonthLen(year, m) ==
    IF m = 2 THEN (IF IsLeap(year) THEN 29 ELSE 28)
    ELSE IF m \in {4, 6, 9, 11} THEN 30 ELSE 31

RECURSIVE MonthDay(_, _, _)
\* calendar month and day of the date d whole days after the first of month m
MonthDay(year, m, d) ==
    IF d < MonthLen(year, m) THEN <<m, d + 1>>
    ELSE MonthDay(year, m + 1, d - MonthLen(year, m))

NoDate == [ok |-> FALSE, none |-> FALSE, year |-> 0, month |-> 0, day |-> 0, rem |-> 0]
NoneTime == [ok |-> TRUE, none |-> TRUE, year |-> 0, month |-> 0, day |-> 0, rem |-> 0]

\* fractional_year_to_datetime: ok = FALSE stands for the exception raised by
\* int(nan) or by datetime(year, 1, 1) for a year outside 1..9999
fractional_year_to_datetime(tv) ==
    IF tv.nan THEN NoDate
    ELSE LET year == IntTrunc(tv.q)
             frac == tv.q - year * FracDen
             days == DaysInYear(year)
             off  == frac * days
         IN IF year < 1 \/ year > 9999 THEN NoDate
            ELSE LET md == MonthDay(year, 1, off \div FracDen)
                 IN [ok |-> TRUE, none |-> FALSE, year |-> year,
                     month |-> md[1], day |-> md[2], rem |-> off % FracDen]

\* tv != tfill for floats
FloatNeq(tv, f) == tv.nan \/ f.nan \/ tv.q # f.q

TimeEntryAlwaysDecode(tv, tfill) == fractional_year_to_datetime(tv)
\* one element of the list comprehension that builds times
TimeEntry(tv, tfill) ==
    IF ~tfill.has \/ FloatNeq(tv, tfill)
    THEN fractional_year_to_datetime(tv)
    ELSE NoneTime

\* ---------------------------------------------------------------- selection
NoIntFill == [has |-> FALSE, v |-> 0]
IntFill(v) == [has |-> TRUE, v |-> v]

NeqFillNoneInvalid(x, fill) == fill.has /\ x # fill.v
\* x != fill, elementwise; a comparison with None is True everywhere
NeqFill(x, fill) == ~fill.has \/ x # fill.v

ValidMaskEither(si, sj, fill_i, fill_j) ==
    [o \in Obs |-> [k \in SlotIdx |->
        NeqFill(si[o][k], fill_i) \/ NeqFill(sj[o][k], fill_j)]]
ValidMask(si, sj, fill_i, fill_j) ==
    [o \in Obs |-> [k \in SlotIdx |->
        NeqFill(si[o][k], fill_i) /\ NeqFill(sj[o][k], fill_j)]]

\* valid_mask.sum(axis=0)
CountsOf(mask) ==
    [k \in SlotIdx |-> SumTo([o \in Obs |-> IF mask[o][k] THEN 1 ELSE 0], NObs)]

RECURSIVE ArgMaxFrom(_, _, _)
\* scan of counts[k..]: best is the first index of the maximum seen so far
ArgMaxFrom(c, k, best) ==
    IF k = NSlots THEN best
    ELSE ArgMaxFrom(c, k + 1, IF c[k] > c[best] THEN k ELSE best)

RECURSIVE ArgMaxLastFrom(_, _, _)
ArgMaxLastFrom(c, k, best) ==
    IF k = NSlots THEN best
    ELSE ArgMaxLastFrom(c, k + 1, IF c[k] >= c[best] THEN k ELSE best)

ArgMaxLast(c) == ArgMaxLastFrom(c, 0, 0)
\* counts.argmax(): first occurrence of the maximum
ArgMax(c) == ArgMaxFrom(c, 0, 0)

RECURSIVE WhereFrom(_, _, _)
WhereFrom(mask, k, o) ==
    IF o = NObs THEN <<>>
    ELSE (IF mask[o][k] THEN <<o>> ELSE <<>>) \o WhereFrom(mask, k, o + 1)

WhereAll(mask, k) == [n \in 1 .. NObs |-> n - 1]
\* np.where(valid_mask[:, k])[0]
Where(mask, k) == WhereFrom(mask, k, 0)

\* --------------------------------------------------------------- resolution
\* the geographic grid of the dataset, row j, column i (thousandths of a degree)
lon2 == [j \in 0 .. (NRows - 1) |-> [i \in 0 .. (NCols - 1) |->
            -120000 + 1004 * i + 13 * j]]
lat2 == [j \in 0 .. (NRows - 1) |-> [i \in 0 .. (NCols - 1) |->
            -1503 + 2002 * j + 17 * i]]

\* an index numpy accepts on an axis of length n
IndexOk(idx, n) == -n <= idx /\ idx < n
\* the position it reads: negative indices count from the end
IndexPos(idx, n) == IF idx < 0 THEN idx + n ELSE idx

\* f"{x:.2f}": thousandths to hundredths, to nearest
Fmt2(x) == IF x >= 0 THEN (x + 5) \div 10 ELSE -((5 - x) \div 10)

ResolveOkSwapped(i_idx, j_idx) == IndexOk(i_idx, NRows) /\ IndexOk(j_idx, NCols)
ResolveOk(i_idx, j_idx) == IndexOk(j_idx, NRows) /\ IndexOk(i_idx, NCols)

ResolveSwapped(i_idx, j_idx) ==
    [lon |-> lon2[IndexPos(i_idx, NRows)][IndexPos(j_idx, NCols)],
     lat |-> lat2[IndexPos(i_idx, NRows)][IndexPos(j_idx, NCols)]]
\* lon2[j_idx, i_idx], lat2[j_idx, i_idx]
Resolve(i_idx, j_idx) ==
    [lon |-> lon2[IndexPos(j_idx, NRows)][IndexPos(i_idx, NCols)],
     lat |-> lat2[IndexPos(j_idx, NRows)][IndexPos(i_idx, NCols)]]

\* sst_da.isel(ni=o, nk=k).values and press_da.isel(ni=o, nk=k).values: the
\* level axis of observation o at slot k, passed through unchanged
SstProfile(o, k) == <<"sea_surface_temperature", o, k>>
PressProfile(o, k) == <<"observation_level_in_pressure", o, k>>

\* ------------------------------------------------------------------- inputs
Variables == {"time", "storm_grid_coord_i", "storm_grid_coord_j",
              "sea_surface_temperature", "observation_level_in_pressure",
              "lon2", "lat2"}

\* (i, j) pairs of a cell: both sentinel, or a collocation inside the grid
BasicCells == {<<-1, -1>>, <<1, 0>>}
\* one coordinate sentinel; a second collocation; an index past the end of
\* either axis; a negative index that is no sentinel
ExoticCells == {<<-1, 0>>, <<1, -1>>, <<2, 1>>, <<NCols, 0>>, <<0, NRows>>, <<0, -2>>}

BaseCellArrays == [Obs -> [SlotIdx -> BasicCells]]
\* arrays in which one slot (the first, the last) is valid for every
\* observation, or none is
ColumnCellArrays ==
    {[o \in Obs |-> [k \in SlotIdx |-> IF k = sel THEN <<1, 0>> ELSE <<-1, -1>>]] :
        sel \in {0, NSlots - 1, NSlots}}
\* the arrays of a set, and each with one cell replaced
WithOneCell(arrays) ==
    arrays \cup
    {[b EXCEPT ![o][k] = e] : b \in arrays, o \in Obs, k \in SlotIdx, e \in ExoticCells}

IntFills == {NoIntFill, IntFill(-1)}

\* decimal years: start, middle and end of a common year and of a leap year,
\* the middle of a century that is no leap year and of one that is
GoodTimes ==
    {Num(y * FracDen + f) : y \in {2023, 2024}, f \in {0, FracDen \div 2, FracDen - 1}}
    \cup {Num(y * FracDen + FracDen \div 2) : y \in {1900, 2000}}
\* year 0, a negative year, the usual sentinel, year 10000, not-a-number
OddTimes == {Num(FracDen \div 2), Num(-FracDen - 1), Num(-9999 * FracDen),
             Num(10000 * FracDen + FracDen \div 2), NaN}
TimeVals == GoodTimes \cup OddTimes
TimeFills == {NoFill, FillOf(Num(-9999 * FracDen)), FillOf(NaN)}

MidYear == Num(2024 * FracDen + FracDen \div 2)

Dataset(present, tvals, tfill, cells, fill_i, fill_j) ==
    [present |-> present, tvals |-> tvals, tfill |-> tfill,
     si |-> [o \in Obs |-> [k \in SlotIdx |-> cells[o][k][1]]],
     sj |-> [o \in Obs |-> [k \in SlotIdx |-> cells[o][k][2]]],
     fill_i |-> fill_i, fill_j |-> fill_j]

\* the index arrays with both fill values declared, and the column arrays
\* with either or both absent; a fixed valid time axis
IndexInputs ==
    {Dataset(Variables, [k \in SlotIdx |-> MidYear], NoFill, c, IntFill(-1), IntFill(-1)) :
        c \in WithOneCell(BaseCellArrays)}
    \cup
    {Dataset(Variables, [k \in SlotIdx |-> MidYear], NoFill, c, fi, fj) :
        c \in WithOneCell(ColumnCellArrays), fi \in IntFills, fj \in IntFills}
\* every time axis, with the column arrays
TimeInputs ==
    {Dataset(Variables, tv, tf, c, IntFill(-1), IntFill(-1)) :
        tv \in [SlotIdx -> TimeVals], tf \in TimeFills, c \in ColumnCellArrays}
\* one variable absent from the file
MissingInputs ==
    {Dataset(Variables \ {v}, [k \in SlotIdx |-> MidYear], NoFill, c, IntFill(-1), IntFill(-1)) :
        v \in Variables, c \in ColumnCellArrays}
\* the file of a run that never opens it
DefaultDataset ==
    Dataset(Variables, [k \in SlotIdx |-> MidYear], NoFill,
            [o \in Obs |-> [k \in SlotIdx |-> <<1, 0>>]], IntFill(-1), IntFill(-1))
Datasets == IndexInputs \cup TimeInputs \cup MissingInputs

\* -------------------------------------------------------------------- state
VARIABLES
    argc,        \* len(sys.argv)
    ds,          \* the dataset file named by argv[1]
    pc,          \* position in main()
    err,         \* the exception that ended the run, "" if none
    failed_at,   \* the step that raised it (the last frame of the traceback)
    times,       \* list of datetimes or None, built entry by entry
    valid_mask, counts, k_max, slots,
    n,           \* position of the plot loop in slots (1-based)
    curves,      \* the lines drawn on the axes, in drawing order
    title,       \* the title of the axes
    files        \* the output files written

vars == <<argc, ds, pc, err, failed_at, times, valid_mask, counts, k_max, slots, n,
          curves, title, files>>

NoTitle == [set |-> FALSE, count |-> 0, known |-> FALSE, ymd |-> <<0, 0, 0>>]

Init ==
    /\ \/ argc = 2 /\ ds \in Datasets
       \/ argc \in {1, 3} /\ ds = DefaultDataset
    /\ pc = "start"
    /\ err = ""
    /\ failed_at = ""
    /\ times = <<>>
    /\ valid_mask = [o \in Obs |-> [k \in SlotIdx |-> FALSE]]
    /\ counts = [k \in SlotIdx |-> 0]
    /\ k_max = 0
    /\ slots = <<>>
    /\ n = 1
    /\ curves = <<>>
    /\ title = NoTitle
    /\ files = {}

\* the variables each step of main() looks up in the dataset
Needs(p) ==
    IF p = "open" THEN {"time"}
    ELSE IF p = "coords" THEN {"storm_grid_coord_i", "storm_grid_coord_j"}
    ELSE IF p = "load" THEN {"sea_surface_temperature", "observation_level_in_pressure",
                             "lon2", "lat2"}
    ELSE {}

Abort(e) ==
    /\ pc' = "aborted"
    /\ err' = e
    /\ failed_at' = pc
    /\ UNCHANGED <<argc, ds, times, valid_mask, counts, k_max, slots, n, curves, title, files>>

\* if len(sys.argv) != 2: print usage; sys.exit(1)
UsageExit ==
    /\ pc = "start"
    /\ argc # 2
    /\ Abort("SystemExit")

CheckArgs ==
    /\ pc = "start"
    /\ argc = 2
    /\ pc' = "open"
    /\ UNCHANGED <<argc, ds, err, failed_at, times, valid_mask, counts, k_max, slots, n, curves, title, files>>

\* ds[name] of a variable the file does not have
MissingVariable ==
    /\ pc \in {"open", "coords", "load"}
    /\ ~(Needs(pc) \subseteq ds.present)
    /\ Abort("KeyError")

\* xr.open_dataset; tvar, tvals, tfill
OpenDataset ==
    /\ pc = "open"
    /\ Needs(pc) \subseteq ds.present
    /\ times' = <<>>
    /\ pc' = "decode"
    /\ UNCHANGED <<argc, ds, err, failed_at, valid_mask, counts, k_max, slots, n, curves, title, files>>

\* the next element of times
DecodeTime ==
    /\ pc = "decode"
    /\ LET t == TimeEntry(ds.tvals[Len(times)], ds.tfill)
       IN /\ t.ok
          /\ times' = Append(times, t)
          /\ pc' = IF Len(times) + 1 = NSlots THEN "coords" ELSE "decode"
    /\ UNCHANGED <<argc, ds, err, failed_at, valid_mask, counts, k_max, slots, n, curves, title, files>>

\* fractional_year_to_datetime raises
DecodeTimeError ==
    /\ pc = "decode"
    /\ ~TimeEntry(ds.tvals[Len(times)], ds.tfill).ok
    /\ Abort("ValueError")

\* si, sj, fill_i, fill_j; valid_mask, counts, k_max, slots
SelectSlot ==
    /\ pc = "coords"
    /\ Needs(pc) \subseteq ds.present
    /\ LET mask == ValidMask(ds.si, ds.sj, ds.fill_i, ds.fill_j)
           c == CountsOf(mask)
           k == ArgMax(c)
       IN /\ valid_mask' = mask
          /\ counts' = c
          /\ k_max' = k
          /\ slots' = Where(mask, k)
    /\ pc' = "load"
    /\ UNCHANGED <<argc, ds, err, failed_at, times, n, curves, title, files>>

\* sst_da, press_da, lon2, lat2; fig, ax; entry of the for loop
LoadProfiles ==
    /\ pc = "load"
    /\ Needs(pc) \subseteq ds.present
    /\ n' = 1
    /\ pc' = IF Len(slots) = 0 THEN "title" ELSE "plot"
    /\ UNCHANGED <<argc, ds, err, failed_at, times, valid_mask, counts, k_max, slots, curves, title, files>>

\* one iteration of the for loop
PlotProfile ==
    /\ pc = "plot"
    /\ LET slot == slots[n]
           i_idx == ds.si[slot][k_max]
           j_idx == ds.sj[slot][k_max]
           at == Resolve(i_idx, j_idx)
       IN /\ ResolveOk(i_idx, j_idx)
          /\ curves' = Append(curves,
                [obs |-> slot, temp |-> SstProfile(slot, k_max),
                 plev |-> PressProfile(slot, k_max),
                 lon |-> at.lon, lat |-> at.lat,
                 label |-> <<Fmt2(at.lon), Fmt2(at.lat)>>])
    /\ n' = n + 1
    /\ pc' = IF n = Len(slots) THEN "title" ELSE "plot"
    /\ UNCHANGED <<argc, ds, err, failed_at, times, valid_mask, counts, k_max, slots, title, files>>

\* lon2[j_idx, i_idx] raises IndexError
PlotIndexError ==
    /\ pc = "plot"
    /\ ~ResolveOk(ds.si[slots[n]][k_max], ds.sj[slots[n]][k_max])
    /\ Abort("IndexError")

\* times[k_max].strftime("%Y-%m-%d") if times[k_max] else "unknown_date"
DateStr(t) ==
    IF t.none THEN [known |-> FALSE, ymd |-> <<0, 0, 0>>]
    ELSE [known |-> TRUE, ymd |-> <<t.year, t.month, t.day>>]

TitleOfFirst(ts, k, sl) ==
    [set |-> TRUE, count |-> Len(sl), known |-> DateStr(ts[1]).known, ymd |-> DateStr(ts[1]).ymd]
\* f"{prefix}: {len(slots)} profiles on {date_str}"
TitleOf(ts, k, sl) ==
    [set |-> TRUE, count |-> Len(sl), known |-> DateStr(ts[k + 1]).known,
     ymd |-> DateStr(ts[k + 1]).ymd]

\* axis limits and labels, date_str, title, legend, layout
SetTitle ==
    /\ pc = "title"
    /\ title' = TitleOf(times, k_max, slots)
    /\ pc' = "save_pdf"
    /\ UNCHANGED <<argc, ds, err, failed_at, times, valid_mask, counts, k_max, slots, n, curves, files>>

SavePdfInLoop ==
    \/ /\ pc = "plot"
       /\ "pdf" \notin files
       /\ files' = files \cup {"pdf"}
       /\ UNCHANGED <<argc, ds, pc, err, failed_at, times, valid_mask, counts, k_max, slots, n, curves, title>>
    \/ /\ pc = "save_pdf"
       /\ files' = files \cup {"pdf"}
       /\ pc' = "save_png"
       /\ UNCHANGED <<argc, ds, err, failed_at, times, valid_mask, counts, k_max, slots, n, curves, title>>
\* fig.savefig(f"{prefix}_profiles.pdf")
SavePdf ==
    /\ pc = "save_pdf"
    /\ files' = files \cup {"pdf"}
    /\ pc' = "save_png"
    /\ UNCHANGED <<argc, ds, err, failed_at, times, valid_mask, counts, k_max, slots, n, curves, title>>

\* fig.savefig(f"{prefix}_profiles.png"); print("Saved ...")
SavePng ==
    /\ pc = "save_png"
    /\ files' = files \cup {"png"}
    /\ pc' = "done"
    /\ UNCHANGED <<argc, ds, err, failed_at, times, valid_mask, counts, k_max, slots, n, curves, title>>

Next ==
    \/ UsageExit
    \/ CheckArgs
    \/ MissingVariable
    \/ OpenDataset
    \/ DecodeTime
    \/ DecodeTimeError
    \/ SelectSlot
    \/ LoadProfiles
    \/ PlotProfile
    \/ PlotIndexError
    \/ SetTitle
    \/ SavePdf
    \/ SavePng

Spec == Init /\ [][Next]_vars

\* =================================================================== claims
\* What the dataset says, restated from the arrays alone.

\* a cell is a collocation: neither coordinate is its declared sentinel
CellValid(o, k) ==
    /\ ds.fill_i.has => ds.si[o][k] # ds.fill_i.v
    /\ ds.fill_j.has => ds.sj[o][k] # ds.fill_j.v
ValidCount(k) == Cardinality({o \in Obs : CellValid(o, k)})
AllSentinel == \A o \in Obs, k \in SlotIdx : ~CellValid(o, k)

\* the time entry of slot k is the declared fill value
FillEq(k) ==
    /\ ds.tfill.has
    /\ ~ds.tfill.nan
    /\ ~ds.tvals[k].nan
    /\ ds.tvals[k].q = ds.tfill.q
\* the time entry of slot k is a finite decimal year of the years 1..9999
Decodable(k) ==
    /\ ~ds.tvals[k].nan
    /\ ds.tvals[k].q >= FracDen
    /\ ds.tvals[k].q < 10000 * FracDen
YearOf(k) == ds.tvals[k].q \div FracDen
FracOf(k) == ds.tvals[k].q % FracDen
Gregorian(y) == IF y % 4 = 0 /\ (y % 100 # 0 \/ y % 400 = 0) THEN 366 ELSE 365
\* days from January 1 to the first of each month of a common year
DaysBefore == <<0, 31, 59, 90, 120, 151, 181, 212, 243, 273, 304, 334>>
\* whole days from January 1 of year y to the calendar date (y, m, d)
DayOfYear(y, m, d) ==
    DaysBefore[m] + (d - 1) + (IF Gregorian(y) = 366 /\ m > 2 THEN 1 ELSE 0)
\* the time from January 1 to a datetime, in units of 1/FracDen day
Elapsed(t) == DayOfYear(t.year, t.month, t.day) * FracDen + t.rem

\* the arguments, the variables and the time axis admit a complete run
InputsOk ==
    /\ argc = 2
    /\ ds.present = Variables
    /\ \A k \in SlotIdx : FillEq(k) \/ Decodable(k)

\* the selection of lines 48-51 has been made
Selected ==
    \/ pc \in {"load", "plot", "title", "save_pdf", "save_png", "done"}
    \/ pc = "aborted" /\ failed_at \in {"load", "plot"}
\* the plot loop has ended
Plotted == pc \in {"title", "save_pdf", "save_png", "done"}

\* C1: the selected slot has a valid count no smaller than any slot's, and
\* every slot before it has a strictly smaller count (lowest index on ties).
C1_ArgmaxLowestIndex ==
    Selected =>
        /\ k_max \in SlotIdx
        /\ \A k \in SlotIdx :
              /\ ValidCount(k_max) >= ValidCount(k)
              /\ k < k_max => ValidCount(k) < ValidCount(k_max)

\* C1 witness: scenario A, [[v, fill], [fill, v]] with fill = -1: both slots
\* count one observation, slot 0 is selected with observation list [0].
C1_Witness ==
    /\ pc = "done"
    /\ ds.fill_i = IntFill(-1) /\ ds.fill_j = IntFill(-1)
    /\ ds.si[0][0] # -1 /\ ds.sj[0][0] # -1
    /\ ds.si[0][1] = -1 /\ ds.sj[0][1] = -1
    /\ ds.si[1][0] = -1 /\ ds.sj[1][0] = -1
    /\ ds.si[1][1] # -1 /\ ds.sj[1][1] # -1
    /\ ValidCount(0) = 1 /\ ValidCount(1) = 1
    /\ k_max = 0
    /\ slots = <<0>>

\* C2: the selected observations are exactly the observations valid at the
\* selected slot, in strictly ascending order, and the curves drawn are those
\* observations in that order, one curve each.
C2_SelectedExactlyValid ==
    /\ Selected =>
          /\ \A x \in 1 .. Len(slots) : slots[x] \in Obs /\ CellValid(slots[x], k_max)
          /\ \A o \in Obs : CellValid(o, k_max) => \E x \in 1 .. Len(slots) : slots[x] = o
          /\ \A x, y \in 1 .. Len(slots) : x < y => slots[x] < slots[y]
    /\ Len(curves) <= Len(slots)
    /\ \A x \in 1 .. Len(curves) :
          /\ curves[x].obs = slots[x]
          /\ curves[x].temp = <<"sea_surface_temperature", slots[x], k_max>>
          /\ curves[x].plev = <<"observation_level_in_pressure", slots[x], k_max>>
    /\ Plotted => Len(curves) = Len(slots)

\* C2 witness: a complete run that drew a curve and left out an observation
\* with exactly one sentinel coordinate at the selected slot.
C2_Witness ==
    /\ pc = "done"
    /\ Len(curves) >= 1
    /\ ds.fill_i.has /\ ds.fill_j.has
    /\ \E o \in Obs :
          /\ (ds.si[o][k_max] = ds.fill_i.v) # (ds.sj[o][k_max] = ds.fill_j.v)
          /\ \A x \in 1 .. Len(curves) : curves[x].obs # o

\* C3: the coordinate of every curve is lon2[j, i], lat2[j, i] for the (i, j)
\* stored at its (observation, selected slot) cell: row j and column i of the
\* grid (an index below zero counting from the end of its axis), and the
\* label is that coordinate to two decimals.
C3_CoordinateIsRowJColumnI ==
    \A x \in 1 .. Len(curves) :
        LET i == ds.si[curves[x].obs][k_max]
            j == ds.sj[curves[x].obs][k_max]
        IN /\ (0 <= i /\ i < NCols /\ 0 <= j /\ j < NRows) =>
                 /\ curves[x].lon = lon2[j][i]
                 /\ curves[x].lat = lat2[j][i]
           /\ \E r \in 0 .. (NRows - 1), c \in 0 .. (NCols - 1) :
                 /\ r \in {j, j + NRows}
                 /\ c \in {i, i + NCols}
                 /\ curves[x].lon = lon2[r][c]
                 /\ curves[x].lat = lat2[r][c]
           /\ 10 * curves[x].label[1] - curves[x].lon \in -5 .. 5
           /\ 10 * curves[x].label[2] - curves[x].lat \in -5 .. 5

\* C3 witness: a complete run with a curve whose stored pair is i = 2, j = 1,
\* a pair that (i, j)-swapped would name another cell.
C3_Witness ==
    /\ pc = "done"
    /\ \E x \in 1 .. Len(curves) :
          /\ ds.si[curves[x].obs][k_max] = 2
          /\ ds.sj[curves[x].obs][k_max] = 1
          /\ curves[x].lon = lon2[1][2]
          /\ curves[x].lon # lon2[0][1]

\* C4: with every cell sentinel and inputs that admit a run, the run never
\* aborts and never stops short of its end, slot 0 is selected with no
\* observation, no curve is drawn, the title counts 0 profiles and both
\* files are written.
C4_AllSentinelCompletes ==
    (AllSentinel /\ InputsOk) =>
        /\ pc # "aborted"
        /\ pc # "done" => ENABLED Next
        /\ Selected => k_max = 0 /\ slots = <<>>
        /\ curves = <<>>
        /\ title.set => title.count = 0
        /\ pc = "done" => title.set /\ files = {"pdf", "png"}

\* C4 witness: such a run at its end.
C4_Witness ==
    /\ AllSentinel /\ InputsOk
    /\ pc = "done"
    /\ title.set /\ title.count = 0
    /\ curves = <<>>
    /\ files = {"pdf", "png"}

\* C5: a run that aborts has written no file, and a run that ended has
\* written none or both.
C5_NoPartialOutput ==
    /\ pc = "aborted" => files = {}
    /\ pc \in {"aborted", "done"} => files \in {{}, {"pdf", "png"}}
    /\ files # {} => pc \in {"save_png", "done"}

\* C5 witness: the latest failure of a run, an out-of-range grid index after
\* a first curve was drawn, with no file written.
C5_Witness ==
    /\ pc = "aborted"
    /\ err = "IndexError"
    /\ Len(curves) >= 1
    /\ files = {}

\* C6, as claimed: no curve is drawn for a cell whose stored (i, j) lies
\* outside the grid (i < 0, j < 0, i >= NCols or j >= NRows): the run
\* aborts instead.  Stated for the datasets that declare both fill values,
\* where a stored index is never a sentinel standing in for an index.
C6_OutOfRangeAborts ==
    (ds.fill_i.has /\ ds.fill_j.has) =>
        \A x \in 1 .. Len(curves) :
            LET i == ds.si[curves[x].obs][k_max]
                j == ds.sj[curves[x].obs][k_max]
            IN 0 <= i /\ i < NCols /\ 0 <= j /\ j < NRows

\* C7: an index array without a fill value contributes no sentinel: validity
\* then depends on the other array alone, and with both absent every count
\* is N, slot 0 is selected and all N observations are returned.
C7_AbsentFillNoSentinel ==
    Selected =>
        /\ ~ds.fill_i.has =>
              \A o \in Obs, k \in SlotIdx :
                  valid_mask[o][k] = (ds.fill_j.has => ds.sj[o][k] # ds.fill_j.v)
        /\ ~ds.fill_j.has =>
              \A o \in Obs, k \in SlotIdx :
                  valid_mask[o][k] = (ds.fill_i.has => ds.si[o][k] # ds.fill_i.v)
        /\ (~ds.fill_i.has /\ ~ds.fill_j.has) =>
              /\ \A k \in SlotIdx : counts[k] = NObs
              /\ k_max = 0
              /\ Len(slots) = NObs
              /\ \A o \in Obs : slots[o + 1] = o

\* C7 witness: both fill values absent, a cell holding -1 in both arrays,
\* and every observation selected at slot 0.
C7_Witness ==
    /\ Selected
    /\ ~ds.fill_i.has /\ ~ds.fill_j.has
    /\ \E o \in Obs, k \in SlotIdx : ds.si[o][k] = -1 /\ ds.sj[o][k] = -1
    /\ k_max = 0
    /\ Len(slots) = NObs

\* every entry decoded so far is January 1 of its year y plus f * D days,
\* D = 366 for a Gregorian leap year and 365 otherwise; it increases with f
\* within a year; half of 2024 is day 183 and half of 2023 is day 182.5
DecodedAsClaimed ==
    /\ \A x \in 1 .. Len(times) :
          ~times[x].none =>
              /\ YearOf(x - 1) >= 1
              /\ times[x].year = YearOf(x - 1)
              /\ Elapsed(times[x]) = FracOf(x - 1) * Gregorian(YearOf(x - 1))
              /\ (YearOf(x - 1) = 2024 /\ 2 * FracOf(x - 1) = FracDen) =>
                    Elapsed(times[x]) = 183 * FracDen
              /\ (YearOf(x - 1) = 2023 /\ 2 * FracOf(x - 1) = FracDen) =>
                    2 * Elapsed(times[x]) = 365 * FracDen
    /\ \A x, y \in 1 .. Len(times) :
          (/\ ~times[x].none /\ ~times[y].none
           /\ YearOf(x - 1) = YearOf(y - 1)
           /\ FracOf(x - 1) < FracOf(y - 1)) =>
              /\ times[x].year = times[y].year
              /\ Elapsed(times[x]) < Elapsed(times[y])

C9_SentinelTimeUnknownDate ==
    /\ \A x \in 1 .. Len(times) : FillEq(x - 1) => times[x].none
    /\ (pc = "aborted" /\ failed_at = "decode") => ~FillEq(Len(times))
    /\ (title.set /\ FillEq(k_max)) => (~title.known /\ pc # "aborted")
    /\ (title.set /\ FillEq(k_max) /\ pc # "done") => ENABLED Next

\* C9 witness: a complete run whose selected slot has the sentinel time.
C9_Witness ==
    /\ pc = "done"
    /\ FillEq(k_max)
    /\ ~title.known
    /\ files = {"pdf", "png"}

\* the slot the selection makes, from the arrays alone
SlotOfArrays ==
    CHOOSE k \in SlotIdx :
        \A k2 \in SlotIdx :
            /\ ValidCount(k) >= ValidCount(k2)
            /\ k2 < k => ValidCount(k2) < ValidCount(k)

\* C10, as claimed: whether the run completes depends only on the time entry
\* of the selected slot, so a run that fails on a time entry fails on the
\* entry of the slot the arrays select.
C10_OnlySelectedEntryMatters ==
    (pc = "aborted" /\ failed_at = "decode") => Len(times) = SlotOfArrays

\* C10, amended: every entry is decoded before the selection, in slot order:
\* a run gets past the time axis only if every entry is the fill value or
\* decodable, and it fails on the first entry that is neither; the date of
\* the title is then the date of the selected slot's entry alone.
C10_EagerDecodeSelectedDate ==
    /\ (pc = "aborted" /\ failed_at = "decode") =>
          /\ ~FillEq(Len(times)) /\ ~Decodable(Len(times))
          /\ \A k \in 0 .. (Len(times) - 1) : FillEq(k) \/ Decodable(k)
    /\ (Selected \/ pc = "coords") => \A k \in SlotIdx : FillEq(k) \/ Decodable(k)
    /\ title.set =>
          /\ title.known = ~FillEq(k_max)
          /\ title.known =>
                /\ title.ymd[1] = YearOf(k_max)
                /\ DayOfYear(title.ymd[1], title.ymd[2], title.ymd[3])
                      = (FracOf(k_max) * Gregorian(YearOf(k_max))) \div FracDen

\* C10 witness: a complete run that selected a slot other than the first,
\* whose first entry is the fill value or of another year.
C10_Witness ==
    /\ pc = "done"
    /\ k_max # 0
    /\ title.known
    /\ FillEq(0) \/ YearOf(0) # YearOf(k_max)

====
